---- MODULE Spec2Model ----
(***************************************************************************)
(* Model of app/routes/($locale).api.products.tsx: the `loader` that       *)
(* parses the query string, issues one storefront query and answers with   *)
(* json(), and the `ProductsApiRoute` component that renders the answer    *)
(* and navigates (sort select, count select, "Load More").                 *)
(*                                                                         *)
(* Strings that the code parses are sequences of one-character strings.    *)
(* A value of type `string | null` is a record [present, s].  A JavaScript *)
(* number is [t |-> "number", v], NaN is [t |-> "NaN"], and the JSON null  *)
(* that NaN encodes to is [t |-> "null"].                                  *)
(***************************************************************************)
EXTENDS Integers, Sequences, FiniteSets

\* ---------------------------------------------------------------- bounds
NumClients == 2        \* browser tabs / in-flight requests
MaxProducts == 14      \* most nodes the storefront returns in the model
MaxNavs == 2           \* navigations one tab performs
ConcProducts == 1      \* most nodes returned in the concurrent specification

Clients == 1..NumClients

\* ------------------------------------------------------ string constants
S_empty == <<>>
S_true == <<"t", "r", "u", "e">>
S_True == <<"T", "r", "u", "e">>
S_1 == <<"1">>
S_shoes == <<"s", "h", "o", "e", "s">>
S_BEST_SELLING == <<"B", "E", "S", "T", "_", "S", "E", "L", "L", "I", "N", "G">>
S_CREATED_AT == <<"C", "R", "E", "A", "T", "E", "D", "_", "A", "T">>
S_PRICE == <<"P", "R", "I", "C", "E">>
S_TITLE == <<"T", "I", "T", "L", "E">>
S_FOO == <<"F", "O", "O">>

Absent == [present |-> FALSE, s |-> <<>>]
Str(s) == [present |-> TRUE, s |-> s]

\* ------------------------------------------------------ JavaScript values
Num(n) == [t |-> "number", v |-> n]
NaN == [t |-> "NaN", v |-> 0]
JsonNull == [t |-> "null", v |-> 0]

\* ------------------------------------------------------------- parseInt
IsWhiteSpace(ch) == ch \in {" ", "\t", "\n", "\r"}

RECURSIVE TrimStart(_)
TrimStart(s) ==
  IF s # <<>> /\ IsWhiteSpace(Head(s)) THEN TrimStart(Tail(s)) ELSE s

\* the value of a character as a digit; 99, above every radix, for any other
DigitValue(ch) ==
  CASE ch = "0" -> 0 [] ch = "1" -> 1 [] ch = "2" -> 2 [] ch = "3" -> 3
    [] ch = "4" -> 4 [] ch = "5" -> 5 [] ch = "6" -> 6 [] ch = "7" -> 7
    [] ch = "8" -> 8 [] ch = "9" -> 9
    [] ch \in {"a", "A"} -> 10 [] ch \in {"b", "B"} -> 11
    [] ch \in {"c", "C"} -> 12 [] ch \in {"d", "D"} -> 13
    [] ch \in {"e", "E"} -> 14 [] ch \in {"f", "F"} -> 15
    [] OTHER -> 99

\* The longest prefix of s made of digits of the radix, as [seen, value].
RECURSIVE ParseDigits(_, _, _, _)
ParseDigits(s, radix, acc, seen) ==
  IF s # <<>> /\ DigitValue(Head(s)) < radix
  THEN ParseDigits(Tail(s), radix, acc * radix + DigitValue(Head(s)), TRUE)
  ELSE [seen |-> seen, value |-> acc]

\* parseInt(string) with no radix argument: never throws, NaN when no digit.
ParseInt(str) ==
  LET s1 == TrimStart(str)
      neg == s1 # <<>> /\ Head(s1) = "-"
      s2 == IF s1 # <<>> /\ Head(s1) \in {"+", "-"} THEN Tail(s1) ELSE s1
      hex == Len(s2) >= 2 /\ s2[1] = "0" /\ s2[2] \in {"x", "X"}
      s3 == IF hex THEN SubSeq(s2, 3, Len(s2)) ELSE s2
      r == ParseDigits(s3, IF hex THEN 16 ELSE 10, 0, FALSE)
  IN IF ~r.seen THEN NaN
     ELSE Num(IF neg THEN 0 - r.value ELSE r.value)

\* ------------------------------------------------- Number.prototype.toString
DigitChar(d) == <<"0", "1", "2", "3", "4", "5", "6", "7", "8", "9">>[d + 1]

RECURSIVE NatToString(_)
NatToString(n) ==
  IF n < 10 THEN <<DigitChar(n)>>
  ELSE Append(NatToString(n \div 10), DigitChar(n % 10))

NumberToString(n) ==
  IF n < 0 THEN <<"-">> \o NatToString(0 - n) ELSE NatToString(n)

\* ------------------------------------------------------------ the loader
DefaultCount == 12

\* const query = searchParams.get('query') ?? ''
QueryOf(q) == IF q.query.present THEN q.query.s ELSE S_empty

\* a loader that checks the value against the ProductSortKeys it recognises
SortKeyOfValidated(q) ==
  IF q.sortKey.present
       /\ q.sortKey.s \in {S_BEST_SELLING, S_CREATED_AT, S_PRICE, S_TITLE}
  THEN q.sortKey.s ELSE S_BEST_SELLING

\* const sortKey = (searchParams.get('sortKey') as ...) ?? 'BEST_SELLING'
SortKeyOf(q) == IF q.sortKey.present THEN q.sortKey.s ELSE S_BEST_SELLING

\* a loader that takes any truthy spelling for true
ReverseOfLoose(q) == q.reverse.present /\ q.reverse.s \in {S_true, S_True, S_1}

\* let reverse = false; if (_reverse === 'true') reverse = true
ReverseOf(q) == q.reverse.present /\ q.reverse.s = S_true

\* a loader that drops the typeof guard: parseInt(null) is NaN
CountOfUnguarded(q) == IF q.count.present THEN ParseInt(q.count.s) ELSE NaN

\* let count = 12; if (typeof _count === 'string') count = parseInt(_count)
CountOf(q) == IF q.count.present THEN ParseInt(q.count.s) ELSE Num(DefaultCount)

BuildParams(q) ==
  [query |-> QueryOf(q), sortKey |-> SortKeyOf(q),
   reverse |-> ReverseOf(q), count |-> CountOf(q)]

\* variables: {count, query, reverse, sortKey, ...} handed to storefront.query
FetchVariables(p) ==
  [count |-> p.count, query |-> p.query, reverse |-> p.reverse,
   sortKey |-> p.sortKey]

\* a loader that takes an empty connection for missing data
InvariantHoldsNonEmpty(products) == products.present /\ products.nodes # <<>>

\* invariant(products, ...): passes on any object, an empty connection included
InvariantHolds(products) == products.present

\* flattenConnection(products)
FlattenConnection(products) == products.nodes

\* json(): JSON.stringify writes NaN as null, every other value as itself
JsonNumber(x) == IF x.t = "NaN" THEN JsonNull ELSE x

JsonSearchParams(p) ==
  [query |-> p.query, sortKey |-> p.sortKey, reverse |-> p.reverse,
   count |-> JsonNumber(p.count)]

NoParams == [query |-> <<>>, sortKey |-> <<>>, reverse |-> FALSE,
             count |-> JsonNull]
NoResponse == [status |-> "none", products |-> <<>>, searchParams |-> NoParams]
NoOutcome == [kind |-> "pending", products |-> [present |-> FALSE, nodes |-> <<>>]]
NoPage == [status |-> "none", loadMore |-> FALSE]
NoRun == [k |-> 0, n |-> 0, from |-> [query |-> Absent, sortKey |-> Absent,
                                      reverse |-> Absent, count |-> Absent]]

\* ----------------------------------------------------------------- state
VARIABLES
  url,       \* url[c]: the query mapping of the tab's current URL
  pc,        \* request | awaiting | responded | rendered | closed
  locals,    \* the loader invocation's query, sortKey, reverse, count
  calls,     \* variables of the storefront.query calls of the current request
  outcome,   \* how the promise of storefront.query settled
  response,  \* what the loader returned or threw
  page,      \* what ProductsApiRoute rendered
  navs,      \* navigations the tab has performed
  run        \* the current run of successive Load More activations

vars == <<url, pc, locals, calls, outcome, response, page, navs, run>>

\* ---------------------------------------------------------------- inputs
QueryInputs == {Absent, Str(S_shoes)}
SortKeyInputs == {Absent, Str(S_PRICE), Str(S_FOO), Str(S_empty)}
ReverseInputs == {Absent, Str(S_true), Str(S_True), Str(S_1), Str(S_empty)}
CountInputs ==
  {Absent, Str(S_empty), Str(<<"a", "b", "c">>), Str(<<"2", "4">>),
   Str(<<"8">>), Str(<<"2">>), Str(<<"1", "2", "p", "x">>),
   Str(<<"-", "1", "2">>), Str(<<"0", "x", "1", "f">>), Str(<<" ", "7">>)}

Urls == [query : QueryInputs, sortKey : SortKeyInputs,
         reverse : ReverseInputs, count : CountInputs]

ConcUrls ==
  {[query |-> Absent, sortKey |-> Absent, reverse |-> Absent, count |-> Absent],
   [query |-> Str(S_shoes), sortKey |-> Str(S_PRICE), reverse |-> Str(S_true),
    count |-> Str(<<"8">>)],
   [query |-> Absent, sortKey |-> Str(S_FOO), reverse |-> Str(S_1),
    count |-> Str(<<"2", "4">>)],
   [query |-> Str(S_shoes), sortKey |-> Absent, reverse |-> Absent,
    count |-> Str(<<"a", "b", "c">>)]}

Nodes(n) == [i \in 1..n |-> i]
Connection(n) == [present |-> TRUE, nodes |-> Nodes(n)]
NullProducts == [present |-> FALSE, nodes |-> <<>>]

SortOptions == {S_BEST_SELLING, S_CREATED_AT, S_PRICE, S_TITLE}
CountOptions == {<<"8">>, <<"1", "2">>, <<"2", "4">>, <<"4", "8">>}

Fresh ==
  /\ locals = [c \in Clients |-> NoParams]
  /\ calls = [c \in Clients |-> <<>>]
  /\ outcome = [c \in Clients |-> NoOutcome]
  /\ response = [c \in Clients |-> NoResponse]
  /\ page = [c \in Clients |-> NoPage]
  /\ navs = [c \in Clients |-> 0]
  /\ run = [c \in Clients |-> NoRun]

\* One tab requests any URL; the other tabs stay closed.
Init ==
  /\ \E u \in Urls : url = [c \in Clients |-> IF c = 1 THEN u ELSE NoRun.from]
  /\ pc = [c \in Clients |-> IF c = 1 THEN "request" ELSE "closed"]
  /\ Fresh

\* Every tab has a request in flight.
InitConc ==
  /\ url \in [Clients -> ConcUrls]
  /\ pc = [c \in Clients |-> "request"]
  /\ Fresh

\* --------------------------------------------------------------- actions
\* loader, from its entry to the await of storefront.query
LoaderStart(c) ==
  /\ pc[c] = "request"
  /\ locals' = [locals EXCEPT ![c] = BuildParams(url[c])]
  /\ calls' = [calls EXCEPT ![c] = Append(@, FetchVariables(BuildParams(url[c])))]
  /\ pc' = [pc EXCEPT ![c] = "awaiting"]
  /\ UNCHANGED <<url, outcome, response, page, navs, run>>

\* the storefront answers with a products connection, or with none
StorefrontResolve(c, products) ==
  /\ pc[c] = "awaiting"
  /\ outcome[c].kind = "pending"
  /\ outcome' = [outcome EXCEPT ![c] = [kind |-> "data", products |-> products]]
  /\ UNCHANGED <<url, pc, locals, calls, response, page, navs, run>>

\* the storefront client rejects the promise
StorefrontReject(c) ==
  /\ pc[c] = "awaiting"
  /\ outcome[c].kind = "pending"
  /\ outcome' = [outcome EXCEPT ![c] = [kind |-> "rejected", products |-> NullProducts]]
  /\ UNCHANGED <<url, pc, locals, calls, response, page, navs, run>>

\* a loader that keeps its parameters in one module-level variable, which the
\* latest invocation overwrites
ResponseParamsShared(c) ==
  IF \E d \in Clients : d # c /\ pc[d] \in {"awaiting", "responded"}
  THEN locals[CHOOSE d \in Clients : d # c /\ pc[d] \in {"awaiting", "responded"}]
  ELSE locals[c]

\* the searchParams object the loader passes to json()
ResponseParams(c) == locals[c]

\* a loader that queries again when no products object came back
LoaderResumeRetry(c) ==
  /\ pc[c] = "awaiting"
  /\ outcome[c].kind # "pending"
  /\ IF outcome[c].kind = "data" /\ ~InvariantHolds(outcome[c].products)
     THEN /\ calls' = [calls EXCEPT ![c] = Append(@, FetchVariables(locals[c]))]
          /\ outcome' = [outcome EXCEPT ![c] = NoOutcome]
          /\ UNCHANGED <<pc, response>>
     ELSE /\ response' = [response EXCEPT ![c] =
               IF outcome[c].kind = "rejected"
               THEN [NoResponse EXCEPT !.status = "fetch_error"]
               ELSE [status |-> "ok",
                     products |-> FlattenConnection(outcome[c].products),
                     searchParams |-> JsonSearchParams(ResponseParams(c))]]
          /\ pc' = [pc EXCEPT ![c] = "responded"]
          /\ UNCHANGED <<calls, outcome>>
  /\ UNCHANGED <<url, locals, page, navs, run>>

\* loader, from the settled await to its return or throw
LoaderResume(c) ==
  /\ pc[c] = "awaiting"
  /\ outcome[c].kind # "pending"
  /\ response' = [response EXCEPT ![c] =
       IF outcome[c].kind = "rejected"
       THEN [NoResponse EXCEPT !.status = "fetch_error"]
       ELSE IF ~InvariantHolds(outcome[c].products)
       THEN [NoResponse EXCEPT !.status = "invariant_error"]
       ELSE [status |-> "ok",
             products |-> FlattenConnection(outcome[c].products),
             searchParams |-> JsonSearchParams(ResponseParams(c))]]
  /\ pc' = [pc EXCEPT ![c] = "responded"]
  /\ UNCHANGED <<url, locals, calls, outcome, page, navs, run>>

\* `a >= b` of JavaScript for a length a and a decoded JSON number-or-null b
\* (null converts to 0)
JsGreaterEqual(a, b) == a >= (IF b.t = "number" THEN b.v ELSE 0)

\* ProductsApiRoute: `searchParams.count.toString()` throws on null, and the
\* error boundary replaces the page; otherwise the Load More button is
\* rendered under `products.length >= searchParams.count`.
RenderPage(data) ==
  IF data.searchParams.count.t = "null"
  THEN [status |-> "error", loadMore |-> FALSE]
  ELSE [status |-> "ok",
        loadMore |-> JsGreaterEqual(Len(data.products), data.searchParams.count)]

Render(c) ==
  /\ pc[c] = "responded"
  /\ response[c].status = "ok"
  /\ page' = [page EXCEPT ![c] = RenderPage(response[c])]
  /\ pc' = [pc EXCEPT ![c] = "rendered"]
  /\ UNCHANGED <<url, locals, calls, outcome, response, navs, run>>

\* window.location.href = url.toString(): the tab requests the new URL
Navigate(c, newUrl) ==
  /\ url' = [url EXCEPT ![c] = newUrl]
  /\ pc' = [pc EXCEPT ![c] = "request"]
  /\ locals' = [locals EXCEPT ![c] = NoParams]
  /\ calls' = [calls EXCEPT ![c] = <<>>]
  /\ outcome' = [outcome EXCEPT ![c] = NoOutcome]
  /\ response' = [response EXCEPT ![c] = NoResponse]
  /\ page' = [page EXCEPT ![c] = NoPage]
  /\ navs' = [navs EXCEPT ![c] = @ + 1]

LoadMoreStep == 12

\* url.searchParams.set('count', (searchParams.count + 12).toString())
LoadMoreUrl(c) ==
  [url[c] EXCEPT !.count =
     Str(NumberToString(response[c].searchParams.count.v + LoadMoreStep))]

\* onClick of the Load More button
LoadMore(c) ==
  /\ pc[c] = "rendered"
  /\ page[c].status = "ok"
  /\ page[c].loadMore
  /\ navs[c] < MaxNavs
  /\ Navigate(c, LoadMoreUrl(c))
  /\ run' = [run EXCEPT ![c] =
       IF @.k = 0
       THEN [k |-> 1, n |-> response[c].searchParams.count.v, from |-> url[c]]
       ELSE [@ EXCEPT !.k = @ + 1]]

\* onChange of the sort select
SelectSortKey(c, value) ==
  /\ pc[c] = "rendered"
  /\ page[c].status = "ok"
  /\ navs[c] < MaxNavs
  /\ Navigate(c, [url[c] EXCEPT !.sortKey = Str(value)])
  /\ run' = [run EXCEPT ![c] = NoRun]

\* onChange of the count select
SelectCount(c, value) ==
  /\ pc[c] = "rendered"
  /\ page[c].status = "ok"
  /\ navs[c] < MaxNavs
  /\ Navigate(c, [url[c] EXCEPT !.count = Str(value)])
  /\ run' = [run EXCEPT ![c] = NoRun]

Next ==
  \E c \in Clients :
    \/ LoaderStart(c)
    \/ \E n \in 0..MaxProducts : StorefrontResolve(c, Connection(n))
    \/ StorefrontResolve(c, NullProducts)
    \/ StorefrontReject(c)
    \/ LoaderResume(c)
    \/ Render(c)
    \/ LoadMore(c)
    \/ \E value \in SortOptions : SelectSortKey(c, value)
    \/ \E value \in CountOptions : SelectCount(c, value)

\* Concurrent loader invocations only: no browser, a small storefront.
NextConc ==
  \E c \in Clients :
    \/ LoaderStart(c)
    \/ \E n \in 0..ConcProducts : StorefrontResolve(c, Connection(n))
    \/ StorefrontResolve(c, NullProducts)
    \/ StorefrontReject(c)
    \/ LoaderResume(c)

Spec == Init /\ [][Next]_vars

SpecConc == InitConc /\ [][NextConc]_vars

\* ============================================================ properties
Started(c) == pc[c] \in {"awaiting", "responded", "rendered"}
Answered(c) == pc[c] \in {"responded", "rendered"}

DecimalDigits == {"0", "1", "2", "3", "4", "5", "6", "7", "8", "9"}

Unsigned(s) == IF s # <<>> /\ Head(s) \in {"+", "-"} THEN Tail(s) ELSE s

\* an optional sign followed by decimal digits and nothing else
IsIntegerString(s) ==
  /\ Unsigned(s) # <<>>
  /\ \A i \in 1..Len(Unsigned(s)) : Unsigned(s)[i] \in DecimalDigits

RECURSIVE DecimalValue(_)
DecimalValue(s) ==
  IF s = <<>> THEN 0
  ELSE 10 * DecimalValue(SubSeq(s, 1, Len(s) - 1))
       + (CHOOSE d \in 0..9 : DigitChar(d) = s[Len(s)])

IntegerValue(s) ==
  IF Head(s) = "-" THEN 0 - DecimalValue(Unsigned(s)) ELSE DecimalValue(Unsigned(s))

\* a string with no digit in it, the empty string included
IsNonNumeric(s) == \A i \in 1..Len(s) : s[i] \notin DecimalDigits

\* C1 (as claimed): pageSize is the parsed integer when `count` is a valid
\* integer string, and the default 12 when `count` is absent, empty or
\* non-numeric.
C1_PageSizeParsedOrDefault ==
  \A c \in Clients : Started(c) =>
    /\ (url[c].count.present /\ IsIntegerString(url[c].count.s)
          => locals[c].count = Num(IntegerValue(url[c].count.s)))
    /\ (~url[c].count.present \/ IsNonNumeric(url[c].count.s)
          => locals[c].count = Num(12))

\* the half of C1 that the code does satisfy (valid integer strings, absence)
PageSizeOfValidCount ==
  \A c \in Clients : Started(c) =>
    /\ (url[c].count.present /\ IsIntegerString(url[c].count.s)
          => locals[c].count = Num(IntegerValue(url[c].count.s)))
    /\ (~url[c].count.present => locals[c].count = Num(12))

\* C2 (as claimed): parameter building always yields a fully populated
\* QueryParameters: searchText a string, sortKey a string, reverse a boolean
\* and pageSize an integer.
C2_FullyPopulated ==
  \A c \in Clients : Started(c) =>
    /\ locals[c].query \in Seq(STRING)
    /\ locals[c].sortKey \in Seq(STRING)
    /\ locals[c].reverse \in BOOLEAN
    /\ locals[c].count.t = "number"
    /\ locals[c].count.v \in Int

\* C3: reverse is true if and only if the raw `reverse` value is exactly
\* "true"; any other value and an absent key give false.
C3_ReverseIffExactlyTrue ==
  \A c \in Clients : Started(c) =>
    (locals[c].reverse <=> url[c].reverse = Str(S_true))

C3_Witness ==
  \E c \in Clients :
    /\ Started(c)
    /\ url[c].reverse = Str(S_True)
    /\ locals[c].reverse = FALSE

\* C4: with none of the four keys present the loader builds
\* {searchText: "", sortKey: "BEST_SELLING", reverse: false, pageSize: 12}.
C4_AllDefaults ==
  \A c \in Clients :
    (/\ Started(c)
     /\ ~url[c].query.present /\ ~url[c].sortKey.present
     /\ ~url[c].reverse.present /\ ~url[c].count.present)
    => locals[c] = [query |-> <<>>, sortKey |-> S_BEST_SELLING,
                    reverse |-> FALSE, count |-> Num(12)]

C4_Witness ==
  \E c \in Clients :
    /\ Answered(c)
    /\ url[c] = [query |-> Absent, sortKey |-> Absent, reverse |-> Absent,
                 count |-> Absent]
    /\ response[c].status = "ok"
    /\ response[c].searchParams.count = Num(12)

\* C5: the loader raises its data-integrity failure, with no listing, exactly
\* when the query result has no products object; an empty product list is a
\* success with an empty listing; the loader raises no other failure of its
\* own (a rejected query is the client's failure, passed on).
C5_FailsIffNoProductsObject ==
  \A c \in Clients : Answered(c) =>
    /\ (response[c].status = "invariant_error"
          <=> (outcome[c].kind = "data" /\ ~outcome[c].products.present))
    /\ (response[c].status = "invariant_error" => response[c].products = <<>>)
    /\ (outcome[c].kind = "data" /\ outcome[c].products.present
          => /\ response[c].status = "ok"
             /\ response[c].products = outcome[c].products.nodes)
    /\ (response[c].status \notin {"ok", "invariant_error"}
          => outcome[c].kind = "rejected")

C5_Witness ==
  \E c \in Clients :
    /\ Answered(c)
    /\ outcome[c] = [kind |-> "data", products |-> Connection(0)]
    /\ response[c].status = "ok"
    /\ response[c].products = <<>>

\* C6 (as claimed): the variables of the outbound fetch are exactly the four
\* values built from the request, and a successful response's searchParams
\* echoes exactly those same four values.
C6_FetchAndEchoSameValues ==
  \A c \in Clients : Started(c) =>
    /\ calls[c][1] = [count |-> CountOf(url[c]), query |-> QueryOf(url[c]),
                      reverse |-> ReverseOf(url[c]), sortKey |-> SortKeyOf(url[c])]
    /\ (response[c].status = "ok" =>
          /\ response[c].searchParams.query = calls[c][1].query
          /\ response[c].searchParams.count = calls[c][1].count
          /\ response[c].searchParams.sortKey = calls[c][1].sortKey
          /\ response[c].searchParams.reverse = calls[c][1].reverse)

\* the part of C6 that the code does satisfy: the echo is exact whenever the
\* built count is a number
EchoOfNumericCount ==
  \A c \in Clients : Started(c) /\ locals[c].count.t = "number" =>
    /\ calls[c][1] = FetchVariables(locals[c])
    /\ (response[c].status = "ok"
          => response[c].searchParams = FetchVariables(locals[c]))

\* C7: a present sortKey is forwarded unchanged to the fetch and to the
\* response, recognised or not; only an absent key becomes "BEST_SELLING".
C7_SortKeyPassThrough ==
  \A c \in Clients : Started(c) =>
    LET expected == IF url[c].sortKey.present THEN url[c].sortKey.s
                    ELSE S_BEST_SELLING
    IN /\ calls[c][1].sortKey = expected
       /\ (response[c].status = "ok"
             => response[c].searchParams.sortKey = expected)

C7_Witness ==
  \E c \in Clients :
    /\ url[c].sortKey = Str(S_FOO)
    /\ response[c].status = "ok"
    /\ calls[c][1].sortKey = S_FOO
    /\ response[c].searchParams.sortKey = S_FOO

\* C8: each inbound request issues exactly one outbound fetch, its response
\* (success or failure) exists only once that fetch has settled, and a
\* missing-data failure ends the request without a second fetch.
C8_OneFetchThenResponse ==
  \A c \in Clients :
    /\ (pc[c] = "request" => calls[c] = <<>> /\ response[c] = NoResponse)
    /\ (pc[c] = "awaiting" => Len(calls[c]) = 1 /\ response[c] = NoResponse)
    /\ (Answered(c) =>
          /\ Len(calls[c]) = 1
          /\ outcome[c].kind # "pending"
          /\ response[c].status # "none")
    /\ (response[c].status = "invariant_error" => Answered(c))

C8_Witness ==
  \E c \in Clients :
    /\ pc[c] = "responded"
    /\ response[c].status = "invariant_error"
    /\ Len(calls[c]) = 1

\* C9: under every interleaving of in-flight requests, each request's fetch
\* variables and response are a function of its own query parameters and its
\* own fetch result only.
C9_RequestsIndependent ==
  \A c \in Clients :
    /\ (Started(c) => /\ locals[c] = BuildParams(url[c])
                      /\ calls[c] = <<FetchVariables(BuildParams(url[c]))>>)
    /\ (Answered(c) =>
          response[c] =
            IF outcome[c].kind = "rejected"
            THEN [NoResponse EXCEPT !.status = "fetch_error"]
            ELSE IF ~outcome[c].products.present
            THEN [NoResponse EXCEPT !.status = "invariant_error"]
            ELSE [status |-> "ok", products |-> outcome[c].products.nodes,
                  searchParams |-> JsonSearchParams(BuildParams(url[c]))])

C9_Witness ==
  /\ \A c \in Clients : pc[c] = "responded" /\ response[c].status = "ok"
  /\ url[1] # url[2]
  /\ response[1].searchParams # response[2].searchParams
  /\ outcome[1] # outcome[2]

\* C10 (as claimed): Load More is offered exactly when the number of products
\* returned is at least the echoed pageSize; activating it keeps every other
\* query parameter and, after k successive activations from pageSize n, the
\* loader runs with pageSize n + 12k.
C10_LoadMore ==
  \A c \in Clients :
    /\ (pc[c] = "rendered" =>
          (page[c].loadMore <=>
             JsGreaterEqual(Len(response[c].products),
                            response[c].searchParams.count)))
    /\ (run[c].k > 0 =>
          /\ url[c].query = run[c].from.query
          /\ url[c].sortKey = run[c].from.sortKey
          /\ url[c].reverse = run[c].from.reverse
          /\ (Started(c) => locals[c].count = Num(run[c].n + 12 * run[c].k)))

\* the part of C10 that the code does satisfy: every page whose echoed
\* pageSize is a number
LoadMoreOfNumericCount ==
  \A c \in Clients :
    /\ (pc[c] = "rendered" /\ response[c].searchParams.count.t = "number" =>
          (page[c].loadMore <=>
             Len(response[c].products) >= response[c].searchParams.count.v))
    /\ (run[c].k > 0 =>
          /\ url[c].query = run[c].from.query
          /\ url[c].sortKey = run[c].from.sortKey
          /\ url[c].reverse = run[c].from.reverse
          /\ (Started(c) => locals[c].count = Num(run[c].n + 12 * run[c].k)))

TwoLoadMoreFromTwo ==
  \E c \in Clients : run[c].k = 2 /\ run[c].n = 2 /\ Started(c)
====
